---------------------------- MODULE Spec2Model ----------------------------
(***************************************************************************)
(* Model of voice-transcriber-svm:                                         *)
(*   src/src/utils/attention.js   AttentionMechanism                       *)
(*   src/unnamed/part_001         speechFeatures, svmClassifier            *)
(*   src/src/utils/audio.js       audioProcessor, speechQuality            *)
(*   src/unnamed/part_000         the VoiceTranscriber component           *)
(*                                                                         *)
(* JavaScript strings are TLA+ strings (Len, SubSeq and \o act on them).   *)
(* JavaScript numbers are exact rationals with a NaN value, see Num below. *)
(***************************************************************************)
EXTENDS Integers, Sequences, FiniteSets, TLC

(***************************************************************************)
(* Bounds of the model.                                                    *)
(***************************************************************************)
\* number of updateMemory calls in one behaviour
MaxUpdates == 6
\* largest numUtterances passed to getRecentContext
MaxK == 6
\* largest numHeads passed to multiHeadAttention
MaxHeads == 4
\* largest number of frequency bins in one analysed frame
MaxBins == 6
\* longest audio history passed to calculateSpeechCharacteristics
MaxHistory == 11
\* largest number of classification timers pending at once
MaxTimers == 2
\* largest number of words in the transcript of the component
MaxWords == 2
\* largest number of microphone requests made (pending or granted)
MaxContexts == 2

(***************************************************************************)
(* Numbers.  A JavaScript number is modelled by a record                   *)
(*   [nan, n, d, root]:  NaN when nan, otherwise the real (n/d)^(1/root),  *)
(* d > 0, gcd(n,d) = 1, root = 1 (a rational) or root = 2 (the square root *)
(* of the non-negative rational n/d, as returned by Math.sqrt).            *)
(* Every division by zero in the modelled code has a zero dividend, so     *)
(* 0/0 = NaN is the only non-finite value that arises.                     *)
(***************************************************************************)
Abs(x) == IF x < 0 THEN -x ELSE x

Min(a, b) == IF a < b THEN a ELSE b

RECURSIVE GCD(_, _)
GCD(a, b) == IF b = 0 THEN a ELSE GCD(b, a % b)

NaN == [nan |-> TRUE, n |-> 0, d |-> 1, root |-> 1]

R(n, d) ==
    IF d = 0 THEN NaN
    ELSE LET g == GCD(Abs(n), Abs(d))
             s == IF d < 0 THEN -1 ELSE 1
         IN  [nan |-> FALSE, n |-> s * (n \div g), d |-> s * (d \div g), root |-> 1]

Num(n) == R(n, 1)

IsNaN(x) == x.nan

\* the sum, formed over the least common denominator
Add(a, b) ==
    IF a.nan \/ b.nan THEN NaN
    ELSE LET g == GCD(a.d, b.d)
         IN  R(a.n * (b.d \div g) + b.n * (a.d \div g), (a.d \div g) * b.d)

Sub(a, b) == IF a.nan \/ b.nan THEN NaN ELSE Add(a, [b EXCEPT !.n = -b.n])

\* the product, with the common factors cancelled first
Mul(a, b) ==
    IF a.nan \/ b.nan THEN NaN
    ELSE LET g1 == GCD(Abs(a.n), b.d)
             g2 == GCD(Abs(b.n), a.d)
         IN  R((a.n \div g1) * (b.n \div g2), (a.d \div g2) * (b.d \div g1))

\* a / b for a rational b; a may be a square root: sqrt(q) / b = sqrt(q / b^2)
Div(a, b) ==
    IF a.nan \/ b.nan THEN NaN
    ELSE IF b.n = 0 THEN NaN
    ELSE LET inv == R(b.d, b.n)
         IN  IF a.root = 2
             THEN [Mul([a EXCEPT !.root = 1], Mul(inv, inv)) EXCEPT !.root = 2]
             ELSE Mul(a, inv)

\* Math.sqrt of a non-negative rational
Sqrt(a) == IF a.nan THEN NaN ELSE [a EXCEPT !.root = 2]

\* Math.abs
AbsN(a) == IF a.nan THEN NaN ELSE [a EXCEPT !.n = Abs(a.n)]

\* the square of a non-negative number, as a pair
Sq(a) == IF a.root = 2 THEN <<a.n, a.d>> ELSE <<a.n * a.n, a.d * a.d>>

\* a < b; false when either is NaN.  A square root is only ever compared
\* with non-negative numbers, where squaring keeps the order.
Lt(a, b) ==
    /\ ~a.nan
    /\ ~b.nan
    /\ IF a.root = 1 /\ b.root = 1
       THEN LET g == GCD(a.d, b.d)
            IN  a.n * (b.d \div g) < b.n * (a.d \div g)
       ELSE Sq(a)[1] * Sq(b)[2] < Sq(b)[1] * Sq(a)[2]

Gt(a, b) == Lt(b, a)

Le(a, b) == ~a.nan /\ ~b.nan /\ ~Lt(b, a)

Ge(a, b) == Le(b, a)

\* Math.min / Math.max of two numbers
MinN(a, b) == IF a.nan \/ b.nan THEN NaN ELSE IF Lt(b, a) THEN b ELSE a

MaxN(a, b) == IF a.nan \/ b.nan THEN NaN ELSE IF Lt(a, b) THEN b ELSE a

\* x || 0 : NaN and 0 are falsy
OrZero(x) == IF x.nan \/ x.n = 0 THEN Num(0) ELSE x

\* Array.prototype.reduce((sum, v) => sum + v, 0)
RECURSIVE SumN(_)
SumN(s) == IF s = <<>> THEN Num(0) ELSE Add(SumN(SubSeq(s, 1, Len(s) - 1)), s[Len(s)])

(***************************************************************************)
(* Strings and arrays.                                                     *)
(***************************************************************************)
UpperLetters == "ABCDEFGHIJKLMNOPQRSTUVWXYZ"

LowerLetters == "abcdefghijklmnopqrstuvwxyz"

CharAt(s, i) == SubSeq(s, i, i)

\* the lower-case letter of each upper-case letter
LowerOf ==
    [c \in {CharAt(UpperLetters, i) : i \in 1..Len(UpperLetters)} |->
        CharAt(LowerLetters, CHOOSE i \in 1..Len(UpperLetters) : CharAt(UpperLetters, i) = c)]

LowerChar(c) == IF c \in DOMAIN LowerOf THEN LowerOf[c] ELSE c

\* String.prototype.toLowerCase
RECURSIVE toLowerCase(_)
toLowerCase(s) ==
    IF Len(s) = 0 THEN ""
    ELSE LowerChar(CharAt(s, 1)) \o toLowerCase(SubSeq(s, 2, Len(s)))

\* String.prototype.split(' '): the pieces between the separators, empty
\* pieces included; the empty string splits into one empty piece.
RECURSIVE split(_)
split(s) ==
    IF \E i \in 1..Len(s) : CharAt(s, i) = " "
    THEN LET i == CHOOSE j \in 1..Len(s) :
                     /\ CharAt(s, j) = " "
                     /\ \A k \in 1..(j - 1) : CharAt(s, k) # " "
         IN  <<SubSeq(s, 1, i - 1)>> \o split(SubSeq(s, i + 1, Len(s)))
    ELSE <<s>>

\* Array.prototype.join(' ')
RECURSIVE join(_)
join(a) ==
    IF a = <<>> THEN ""
    ELSE IF Len(a) = 1 THEN a[1]
    ELSE join(SubSeq(a, 1, Len(a) - 1)) \o " " \o a[Len(a)]

\* Array.prototype.includes
includes(a, x) == \E i \in DOMAIN a : a[i] = x

\* Array.prototype.slice(start) for an integer start (negative: from the end;
\* -0 is 0, so slice(-0) is the whole array)
slice(a, start) ==
    LET len  == Len(a)
        from == IF start < 0 THEN (IF len + start < 0 THEN 0 ELSE len + start)
                ELSE (IF start > len THEN len ELSE start)
    IN  SubSeq(a, from + 1, len)

(***************************************************************************)
(* attention.js: word lists                                                *)
(***************************************************************************)
highImportance ==
    << "important", "critical", "urgent", "problem", "solution", "error",
       "success", "failure", "meeting", "deadline", "project", "result" >>

mediumImportance ==
    << "please", "thank", "help", "question", "answer", "information",
       "data", "report", "analysis", "summary", "detail", "process" >>

lowImportance ==
    << "the", "and", "or", "but", "in", "on", "at", "to", "for", "of",
       "with", "by", "from", "up", "about", "into", "through", "during" >>

semanticGroups ==
    << << "meeting", "conference", "call", "discussion", "talk" >>,
       << "project", "task", "work", "job", "assignment" >>,
       << "problem", "issue", "bug", "error", "trouble" >>,
       << "data", "information", "report", "analysis", "statistics" >>,
       << "time", "schedule", "deadline", "date", "calendar" >>,
       << "money", "cost", "budget", "price", "financial" >> >>

getWordImportance ==
    [highImportance |-> highImportance,
     mediumImportance |-> mediumImportance,
     lowImportance |-> lowImportance]

getSemanticGroups == semanticGroups

\* Math.exp on the hundredths 0.00 .. 1.00, to four decimals:
\* ExpTable[k + 1] = round(10000 * e^(k/100))
ExpTable ==
    << 10000, 10101, 10202, 10305, 10408, 10513, 10618, 10725, 10833, 10942,
       11052, 11163, 11275, 11388, 11503, 11618, 11735, 11853, 11972, 12092,
       12214, 12337, 12461, 12586, 12712, 12840, 12969, 13100, 13231, 13364,
       13499, 13634, 13771, 13910, 14049, 14191, 14333, 14477, 14623, 14770,
       14918, 15068, 15220, 15373, 15527, 15683, 15841, 16000, 16161, 16323,
       16487, 16653, 16820, 16989, 17160, 17333, 17507, 17683, 17860, 18040,
       18221, 18404, 18589, 18776, 18965, 19155, 19348, 19542, 19739, 19937,
       20138, 20340, 20544, 20751, 20959, 21170, 21383, 21598, 21815, 22034,
       22255, 22479, 22705, 22933, 23164, 23396, 23632, 23869, 24109, 24351,
       24596, 24843, 25093, 25345, 25600, 25857, 26117, 26379, 26645, 26912,
       27183 >>

\* Math.exp(w); the weights reaching it are hundredths in [0.2, 1.0]
Exp(w) == IF w.nan THEN NaN ELSE R(ExpTable[((w.n * 100) \div w.d) + 1], 10000)

(***************************************************************************)
(* attention.js: AttentionMechanism                                        *)
(***************************************************************************)
\* memoryBank is kept to the last 5 utterances
MemoryCapacity == 5

\* getRecentContext(numUtterances = 3)
DefaultNumUtterances == 3

\* multiHeadAttention(words, numHeads = 3)
DefaultNumHeads == 3

\* softmax dividing the weights, not their exponentials, by the sum
softmax_rawOverSum(weights) ==
    LET expWeights == [i \in 1..Len(weights) |-> Exp(weights[i])]
        sumExp     == SumN(expWeights)
    IN  [i \in 1..Len(weights) |-> Div(weights[i], sumExp)]

\* softmax(weights)
softmax(weights) ==
    LET expWeights == [i \in 1..Len(weights) |-> Exp(weights[i])]
        sumExp     == SumN(expWeights)
    IN  [i \in 1..Len(weights) |-> Div(expWeights[i], sumExp)]

\* calculateContextRelevance(word, context).  The loop over the groups
\* returns 0.6 at the first group holding both the word and a context word.
calculateContextRelevance(word, context) ==
    LET contextWords == split(toLowerCase(join(context)))
        wordLower    == toLowerCase(word)
    IN  IF includes(contextWords, wordLower) THEN R(8, 10)
        ELSE IF \E g \in DOMAIN getSemanticGroups :
                   /\ includes(getSemanticGroups[g], wordLower)
                   /\ \E c \in DOMAIN contextWords :
                          includes(getSemanticGroups[g], contextWords[c])
             THEN R(6, 10)
             ELSE R(1, 10)

\* the body of the forEach of calculateAttention, for words[i]
\* (i is 1-based here, the index of the code is i - 1)
AttentionWeight(words, i, context) ==
    LET word == words[i]
        wordImportance == getWordImportance
        base == R(3, 10)
        w1 == IF includes(wordImportance.highImportance, toLowerCase(word))
              THEN Add(base, R(4, 10))
              ELSE IF includes(wordImportance.mediumImportance, toLowerCase(word))
                   THEN Add(base, R(2, 10))
                   ELSE base
        w2 == IF i - 1 = 0 \/ i - 1 = Len(words) - 1 THEN Add(w1, R(2, 10)) ELSE w1
        w3 == IF Len(word) > 6 THEN Add(w2, R(1, 10)) ELSE w2
        w4 == IF Len(context) > 0
              THEN Add(w3, Mul(calculateContextRelevance(word, context), R(3, 10)))
              ELSE w3
    IN  MinN(Num(1), MaxN(R(2, 10), w4))

\* calculateAttention(words, context = [])
calculateAttention(words, context) ==
    softmax([i \in 1..Len(words) |-> AttentionWeight(words, i, context)])

\* getRecentContext(numUtterances) on the memory bank mem
getRecentContext(mem, numUtterances) == slice(mem, -numUtterances)

\* getRecentContext handing out the memory bank itself when all of it is
\* asked for
getRecentContextArray_sharedWhenWhole(mem, numUtterances) ==
    IF numUtterances >= Len(mem)
    THEN [utterances |-> mem, array |-> "memoryBank"]
    ELSE [utterances |-> getRecentContext(mem, numUtterances), array |-> "new"]

\* the array object getRecentContext returns: slice() allocates a new array
\* and copies the elements into it, so it is never the memory bank itself
getRecentContextArray(mem, numUtterances) ==
    [utterances |-> getRecentContext(mem, numUtterances), array |-> "new"]

\* calculateContentAttention(words)
calculateContentAttention(words) ==
    LET stopWords == getWordImportance.lowImportance
    IN  [i \in 1..Len(words) |->
            IF includes(stopWords, toLowerCase(words[i])) THEN R(2, 10) ELSE R(8, 10)]

\* calculatePositionalAttention(words)
calculatePositionalAttention(words) ==
    [i \in 1..Len(words) |->
        LET relativePos == Div(Num(i - 1), Num(Len(words) - 1))
        IN  Add(R(3, 10), Mul(R(7, 10), Mul(AbsN(Sub(relativePos, R(5, 10))), Num(2))))]

\* calculateContextualAttention reading the whole memory for its context
calculateContextualAttention_wholeMemory(words, mem) ==
    LET context == getRecentContext(mem, MemoryCapacity)
    IN  [i \in 1..Len(words) |->
            LET relevance == calculateContextRelevance(words[i], context)
            IN  Add(R(3, 10), Mul(relevance, R(7, 10)))]

\* calculateContextualAttention(words) on the memory bank mem
calculateContextualAttention(words, mem) ==
    LET context == getRecentContext(mem, DefaultNumUtterances)
    IN  [i \in 1..Len(words) |->
            LET relevance == calculateContextRelevance(words[i], context)
            IN  Add(R(3, 10), Mul(relevance, R(7, 10)))]

\* the weights of one head of multiHeadAttention (head counts from 0)
HeadWeights(head, words, mem) ==
    CASE head = 0 -> calculateContentAttention(words)
      [] head = 1 -> calculatePositionalAttention(words)
      [] head = 2 -> calculateContextualAttention(words, mem)
      [] OTHER    -> calculateAttention(words, <<>>)

\* multiHeadAttention with the combining loop stopping one token early
multiHeadAttention_short(words, numHeads, mem) ==
    LET headResults == [h \in 1..numHeads |-> HeadWeights(h - 1, words, mem)]
    IN  [i \in 1..(Len(words) - 1) |->
            Div(SumN([h \in 1..numHeads |-> headResults[h][i]]), Num(numHeads))]

\* multiHeadAttention(words, numHeads) on the memory bank mem
multiHeadAttention(words, numHeads, mem) ==
    LET headResults == [h \in 1..numHeads |-> HeadWeights(h - 1, words, mem)]
    IN  [i \in 1..Len(words) |->
            Div(SumN([h \in 1..numHeads |-> headResults[h][i]]), Num(numHeads))]

\* updateMemory(utterance) with pop() for shift(): the newest entry is dropped
updateMemory_pop(mem, utterance) ==
    LET pushedMem == Append(mem, utterance)
    IN  IF Len(pushedMem) > MemoryCapacity
        THEN SubSeq(pushedMem, 1, Len(pushedMem) - 1)
        ELSE pushedMem

\* updateMemory(utterance) on the memory bank mem: push, then shift beyond 5
updateMemory(mem, utterance) ==
    LET pushedMem == Append(mem, utterance)
    IN  IF Len(pushedMem) > MemoryCapacity THEN Tail(pushedMem) ELSE pushedMem

(***************************************************************************)
(* part_001: speechFeatures and svmClassifier                              *)
(***************************************************************************)
positiveWords ==
    << "good", "great", "awesome", "excellent", "wonderful", "amazing", "fantastic" >>

negativeWords ==
    << "bad", "terrible", "awful", "horrible", "disgusting", "hate", "angry" >>

\* calculateSentiment(words): +1 per positive word, -1 per negative word
RECURSIVE calculateSentiment(_)
calculateSentiment(words) ==
    IF words = <<>> THEN 0
    ELSE LET word == words[Len(words)]
             score == calculateSentiment(SubSeq(words, 1, Len(words) - 1))
             s1 == IF includes(positiveWords, word) THEN score + 1 ELSE score
         IN  IF includes(negativeWords, word) THEN s1 - 1 ELSE s1

\* calculateComplexity(words)
calculateComplexity(words) ==
    LET complexWords == {i \in DOMAIN words : Len(words[i]) > 6}
    IN  OrZero(Div(Num(Cardinality(complexWords)), Num(Len(words))))

\* (text.match(/c/g) || []).length for a one-character pattern c
CountChar(text, c) == Cardinality({i \in 1..Len(text) : CharAt(text, i) = c})

\* extractFeatures with avgWordLength taken from the length of the text, the
\* separators counted in
extractFeatures_textLength(text) ==
    LET words == split(toLowerCase(text))
    IN  [wordCount        |-> Num(Len(words)),
         avgWordLength    |-> OrZero(Div(Num(Len(text)), Num(Len(words)))),
         hasQuestionMarks |-> Num(CountChar(text, "?")),
         hasExclamations  |-> Num(CountChar(text, "!")),
         speechRate       |-> Num(Len(words)),
         sentiment        |-> Num(calculateSentiment(words)),
         complexity       |-> calculateComplexity(words)]

\* speechFeatures.extractFeatures(text)
extractFeatures(text) ==
    LET words == split(toLowerCase(text))
    IN  [wordCount        |-> Num(Len(words)),
         avgWordLength    |-> OrZero(Div(SumN([i \in 1..Len(words) |-> Num(Len(words[i]))]),
                                         Num(Len(words)))),
         hasQuestionMarks |-> Num(CountChar(text, "?")),
         hasExclamations  |-> Num(CountChar(text, "!")),
         speechRate       |-> Num(Len(words)),
         sentiment        |-> Num(calculateSentiment(words)),
         complexity       |-> calculateComplexity(words)]

\* classify with the Slow Speech rule tested before the Emotional Speech rule
classify_slowFirst(features) ==
    IF Gt(features.complexity, R(3, 10)) /\ Gt(features.avgWordLength, Num(5))
    THEN [type |-> "Formal Speech", confidence |-> R(85, 100)]
    ELSE IF Gt(features.speechRate, Num(10)) /\ Gt(features.sentiment, Num(0))
    THEN [type |-> "Excited Speech", confidence |-> R(78, 100)]
    ELSE IF Lt(features.avgWordLength, Num(4)) /\ Lt(features.wordCount, Num(5))
    THEN [type |-> "Casual Speech", confidence |-> R(82, 100)]
    ELSE IF Lt(features.speechRate, Num(3))
    THEN [type |-> "Slow Speech", confidence |-> R(80, 100)]
    ELSE IF Lt(features.sentiment, Num(0))
    THEN [type |-> "Emotional Speech", confidence |-> R(76, 100)]
    ELSE [type |-> "Normal Speech", confidence |-> R(75, 100)]

\* svmClassifier.classify(features)
classify(features) ==
    IF Gt(features.complexity, R(3, 10)) /\ Gt(features.avgWordLength, Num(5))
    THEN [type |-> "Formal Speech", confidence |-> R(85, 100)]
    ELSE IF Gt(features.speechRate, Num(10)) /\ Gt(features.sentiment, Num(0))
    THEN [type |-> "Excited Speech", confidence |-> R(78, 100)]
    ELSE IF Lt(features.avgWordLength, Num(4)) /\ Lt(features.wordCount, Num(5))
    THEN [type |-> "Casual Speech", confidence |-> R(82, 100)]
    ELSE IF Lt(features.sentiment, Num(0))
    THEN [type |-> "Emotional Speech", confidence |-> R(76, 100)]
    ELSE IF Lt(features.speechRate, Num(3))
    THEN [type |-> "Slow Speech", confidence |-> R(80, 100)]
    ELSE [type |-> "Normal Speech", confidence |-> R(75, 100)]

(***************************************************************************)
(* audio.js: audioProcessor.analyzeFrequencyData and speechQuality         *)
(***************************************************************************)
\* ToIntegerOrInfinity of a non-negative number: the fraction is dropped
ToInteger(x) == x.n \div x.d

\* TypedArray.prototype.slice(start, end) for non-negative numbers start, end
sliceRange(a, start, end) ==
    LET len  == Len(a)
        from == Min(ToInteger(start), len)
        to   == Min(ToInteger(end), len)
    IN  SubSeq(a, from + 1, to)

\* the byte samples as numbers
AsNumbers(dataArray) == [i \in 1..Len(dataArray) |-> Num(dataArray[i])]

\* Math.max(...values) for a non-empty array
RECURSIVE MaxOf(_)
MaxOf(values) ==
    IF Len(values) = 1 THEN values[1]
    ELSE MaxN(MaxOf(SubSeq(values, 1, Len(values) - 1)), values[Len(values)])

\* Math.min(...values) for a non-empty array
RECURSIVE MinOf(_)
MinOf(values) ==
    IF Len(values) = 1 THEN values[1]
    ELSE MinN(MinOf(SubSeq(values, 1, Len(values) - 1)), values[Len(values)])

\* reduce((sum, value) => sum + value, 0) / length
Mean(values) == Div(SumN(values), Num(Len(values)))

\* the three sub-arrays of analyzeFrequencyData
lowFreq(dataArray) ==
    sliceRange(dataArray, Num(0), Div(Num(Len(dataArray)), Num(4)))

midFreq(dataArray) ==
    sliceRange(dataArray, Div(Num(Len(dataArray)), Num(4)),
               Div(Num(3 * Len(dataArray)), Num(4)))

highFreq(dataArray) ==
    sliceRange(dataArray, Div(Num(3 * Len(dataArray)), Num(4)), Num(Len(dataArray)))

\* raw average above which a frame counts as speech
speechThreshold == 30

\* the frame metrics, given the three sub-arrays
FrameMetrics(dataArray, low, mid, high, isSpeaking, now) ==
    LET bufferLength == Len(dataArray)
        values  == AsNumbers(dataArray)
        average == Div(SumN(values), Num(bufferLength))
        peak    == MaxOf(values)
        rms     == Sqrt(Div(SumN([i \in 1..bufferLength |-> Mul(values[i], values[i])]),
                            Num(bufferLength)))
        lowEnergy  == Mean(AsNumbers(low))
        midEnergy  == Mean(AsNumbers(mid))
        highEnergy == Mean(AsNumbers(high))
    IN  [average   |-> Div(average, Num(255)),
         peak      |-> Div(peak, Num(255)),
         rms       |-> Div(rms, Num(255)),
         isSpeaking |-> isSpeaking,
         frequencyDistribution |->
             [low  |-> Div(lowEnergy, Num(255)),
              mid  |-> Div(midEnergy, Num(255)),
              high |-> Div(highEnergy, Num(255))],
         timestamp |-> now]

\* the raw average of the frame
RawAverage(dataArray) == Div(SumN(AsNumbers(dataArray)), Num(Len(dataArray)))

\* analyzeFrequencyData with isSpeaking = average >= speechThreshold
analyzeFrequencyData_atThreshold(dataArray, now) ==
    FrameMetrics(dataArray, lowFreq(dataArray), midFreq(dataArray), highFreq(dataArray),
                 Ge(RawAverage(dataArray), Num(speechThreshold)), now)

\* analyzeFrequencyData with an even three-way split of the bins
analyzeFrequencyData_thirds(dataArray, now) ==
    LET third == Div(Num(Len(dataArray)), Num(3))
    IN  FrameMetrics(dataArray,
                     sliceRange(dataArray, Num(0), third),
                     sliceRange(dataArray, third, Mul(Num(2), third)),
                     sliceRange(dataArray, Mul(Num(2), third), Num(Len(dataArray))),
                     Gt(RawAverage(dataArray), Num(speechThreshold)), now)

\* audioProcessor.analyzeFrequencyData(analyser), for the bytes dataArray
\* that analyser.getByteFrequencyData delivers and the time now of Date.now()
analyzeFrequencyData(dataArray, now) ==
    FrameMetrics(dataArray, lowFreq(dataArray), midFreq(dataArray), highFreq(dataArray),
                 Gt(RawAverage(dataArray), Num(speechThreshold)), now)

\* null
Null == [null |-> TRUE]

\* the truthiness of an optional object argument
Truthy(x) == "null" \notin DOMAIN x

\* default of the threshold parameter of detectVoiceActivity
DefaultVoiceThreshold == R(1, 10)

\* detectVoiceActivity with || for && in the isVoice test
detectVoiceActivity_either(audioData, threshold) ==
    LET average == audioData.average
        frequencyDistribution == audioData.frequencyDistribution
        voiceIndicator ==
            Div(Add(Mul(frequencyDistribution.mid, Num(2)), frequencyDistribution.low),
                Num(3))
    IN  [isVoice    |-> Gt(average, threshold) \/ Gt(voiceIndicator, threshold),
         confidence |-> MinN(Num(1), Div(voiceIndicator, threshold)),
         quality    |-> IF Gt(audioData.rms, R(5, 100)) THEN "good" ELSE "poor"]

\* audioProcessor.detectVoiceActivity(audioData, threshold = 0.1), for a
\* threshold other than 0
detectVoiceActivity(audioData, threshold) ==
    LET average == audioData.average
        frequencyDistribution == audioData.frequencyDistribution
        voiceIndicator ==
            Div(Add(Mul(frequencyDistribution.mid, Num(2)), frequencyDistribution.low),
                Num(3))
    IN  [isVoice    |-> Gt(average, threshold) /\ Gt(voiceIndicator, threshold),
         confidence |-> MinN(Num(1), Div(voiceIndicator, threshold)),
         quality    |-> IF Gt(audioData.rms, R(5, 100)) THEN "good" ELSE "poor"]

\* the number of recent frames calculateSpeechCharacteristics looks at
RecentFrames == 10

\* the summary of calculateSpeechCharacteristics for the frames recentData
SpeechSummary(recentData) ==
    LET averages  == [i \in 1..Len(recentData) |-> recentData[i].average]
        avgVolume == Div(SumN(averages), Num(Len(recentData)))
        consistency == Sub(Num(1), Sub(MaxOf(averages), MinOf(averages)))
        speakingFrames == Cardinality({i \in 1..Len(recentData) : recentData[i].isSpeaking})
        speechRatio == Div(Num(speakingFrames), Num(Len(recentData)))
    IN  [averageVolume |-> avgVolume,
         consistency   |-> consistency,
         speechPattern |-> IF Gt(speechRatio, R(8, 10)) THEN "continuous"
                           ELSE IF Gt(speechRatio, R(5, 10)) THEN "intermittent"
                           ELSE IF Gt(speechRatio, R(2, 10)) THEN "sparse"
                           ELSE "silent",
         speechRatio   |-> speechRatio,
         quality       |-> IF Gt(avgVolume, R(3, 10)) /\ Gt(consistency, R(5, 10))
                           THEN "high" ELSE "medium"]

\* calculateSpeechCharacteristics summing up the whole history
calculateSpeechCharacteristics_wholeHistory(audioHistory) ==
    IF Len(audioHistory) = 0 THEN Null
    ELSE SpeechSummary(audioHistory)

\* audioProcessor.calculateSpeechCharacteristics(audioHistory)
calculateSpeechCharacteristics(audioHistory) ==
    IF Len(audioHistory) = 0 THEN Null
    ELSE SpeechSummary(slice(audioHistory, -RecentFrames))

\* generateRecommendations with the test score <= 75
generateRecommendations_upTo75(score, factors) ==
    IF score <= 75
    THEN (IF ~includes(factors, "Good volume level")
          THEN <<"Adjust microphone distance or system volume">> ELSE <<>>)
         \o (IF ~includes(factors, "Good frequency distribution")
             THEN <<"Check microphone quality and reduce background noise">> ELSE <<>>)
         \o (IF ~includes(factors, "Consistent audio levels")
             THEN <<"Maintain steady speaking volume and distance">> ELSE <<>>)
         \o (IF ~includes(factors, "Good dynamic range")
             THEN <<"Ensure proper microphone settings and audio drivers">> ELSE <<>>)
    ELSE <<>>

\* generateRecommendations(score, factors)
generateRecommendations(score, factors) ==
    IF score < 75
    THEN (IF ~includes(factors, "Good volume level")
          THEN <<"Adjust microphone distance or system volume">> ELSE <<>>)
         \o (IF ~includes(factors, "Good frequency distribution")
             THEN <<"Check microphone quality and reduce background noise">> ELSE <<>>)
         \o (IF ~includes(factors, "Consistent audio levels")
             THEN <<"Maintain steady speaking volume and distance">> ELSE <<>>)
         \o (IF ~includes(factors, "Good dynamic range")
             THEN <<"Ensure proper microphone settings and audio drivers">> ELSE <<>>)
    ELSE <<>>

\* the volume check with the lower end 0.3 left out of the range
VolumeCheck_open(st, average) ==
    IF Gt(average, R(3, 10)) /\ Le(average, R(8, 10))
    THEN [score |-> st.score + 25, factors |-> Append(st.factors, "Good volume level")]
    ELSE IF Lt(average, R(1, 10))
    THEN [st EXCEPT !.factors = Append(st.factors, "Volume too low")]
    ELSE IF Gt(average, R(9, 10))
    THEN [st EXCEPT !.factors = Append(st.factors, "Volume too high")]
    ELSE st

\* the four checks of assessQuality in turn: st is [score, factors]
VolumeCheck(st, average) ==
    IF Ge(average, R(3, 10)) /\ Le(average, R(8, 10))
    THEN [score |-> st.score + 25, factors |-> Append(st.factors, "Good volume level")]
    ELSE IF Lt(average, R(1, 10))
    THEN [st EXCEPT !.factors = Append(st.factors, "Volume too low")]
    ELSE IF Gt(average, R(9, 10))
    THEN [st EXCEPT !.factors = Append(st.factors, "Volume too high")]
    ELSE st

FrequencyCheck(st, frequencyDistribution) ==
    IF /\ Gt(frequencyDistribution.mid, frequencyDistribution.low)
       /\ Gt(frequencyDistribution.mid, frequencyDistribution.high)
    THEN [score |-> st.score + 25,
          factors |-> Append(st.factors, "Good frequency distribution")]
    ELSE st

ConsistencyCheck(st, speechCharacteristics) ==
    IF Truthy(speechCharacteristics) /\ Gt(speechCharacteristics.consistency, R(7, 10))
    THEN [score |-> st.score + 25, factors |-> Append(st.factors, "Consistent audio levels")]
    ELSE st

RmsCheck(st, rms) ==
    IF Gt(rms, R(1, 10)) /\ Lt(rms, R(8, 10))
    THEN [score |-> st.score + 25, factors |-> Append(st.factors, "Good dynamic range")]
    ELSE st

\* the result of assessQuality for the final [score, factors]
QualityResult(st, recommendations) ==
    [score  |-> st.score,
     level  |-> IF st.score >= 75 THEN "excellent"
                ELSE IF st.score >= 50 THEN "good"
                ELSE IF st.score >= 25 THEN "fair"
                ELSE "poor",
     factors |-> st.factors,
     recommendations |-> recommendations]

\* speechQuality.assessQuality(audioData, speechCharacteristics)
assessQuality(audioData, speechCharacteristics) ==
    LET s0 == [score |-> 0, factors |-> <<>>]
        s1 == VolumeCheck(s0, audioData.average)
        s2 == FrequencyCheck(s1, audioData.frequencyDistribution)
        s3 == ConsistencyCheck(s2, speechCharacteristics)
        s4 == RmsCheck(s3, audioData.rms)
    IN  QualityResult(s4, generateRecommendations(s4.score, s4.factors))

(***************************************************************************)
(* State.                                                                  *)
(*   memoryBank  this.memoryBank of one AttentionMechanism instance        *)
(*   pushed      every utterance passed to updateMemory so far (history)   *)
(*   call        the operation being called, with the arguments given to   *)
(*               it by name (a defaulted parameter is absent), or Idle     *)
(*               between calls                                             *)
(*   ret         what that call returned, a record                         *)
(* Every operation is synchronous and the engine is single-threaded: a     *)
(* call runs to completion (one action), then control is back with the     *)
(* caller (Return) before the next call starts.                            *)
(***************************************************************************)
VARIABLES memoryBank, pushed, call, ret

(***************************************************************************)
(* A second AttentionMechanism instance, with its own call and result:     *)
(*   otherBank   this.memoryBank of the second instance                    *)
(*   otherCall   the operation called on it, or Idle                       *)
(*   otherRet    what that call returned                                   *)
(***************************************************************************)
VARIABLES otherBank, otherCall, otherRet

otherVars == <<otherBank, otherCall, otherRet>>

(***************************************************************************)
(* The VoiceTranscriber component (part_000).                              *)
(* useState hooks:                                                         *)
(*   isListening, transcript, interimTranscript, confidence,               *)
(*   speechClassification, attentionWeights, audioLevel, isProcessing      *)
(* useRef hooks (0 is null, k > 0 the k-th audio context created, or the   *)
(* analyser of that context):                                              *)
(*   audioContextRef, analyserRef                                          *)
(* The environment of the component:                                       *)
(*   recognition  the state of the SpeechRecognition object: "inactive",   *)
(*                "active" after start(), "stopping" after stop()          *)
(*   effectRan    the value of isListening that the useEffect on           *)
(*                [isListening] last ran with                              *)
(*   grants       the getUserMedia promises not yet settled, one entry per *)
(*                startAudioMonitoring call awaiting: the value of         *)
(*                isListening its closure captured                         *)
(*   contexts     the state of every AudioContext created so far           *)
(*   frames       the updateAudioLevel callbacks queued with               *)
(*                requestAnimationFrame, each the isListening it captured  *)
(*   timers       the number of setTimeout callbacks of                    *)
(*                simulateSVMClassification not yet fired                  *)
(*   sinceClear   history: "cleared" from clearTranscript until the next   *)
(*                recognition result, "interim" while only interim results *)
(*                came since, "none" otherwise                             *)
(***************************************************************************)
VARIABLES isListening, transcript, interimTranscript, confidence,
          speechClassification, attentionWeights, audioLevel, isProcessing,
          audioContextRef, analyserRef,
          recognition, effectRan, grants, contexts, frames, timers, sinceClear

hookVars ==
    <<isListening, transcript, interimTranscript, confidence,
      speechClassification, attentionWeights, audioLevel, isProcessing>>

audioVars == <<audioContextRef, analyserRef, grants, contexts, frames>>

compVars == <<hookVars, audioVars, recognition, effectRan, timers, sinceClear>>

vars == <<memoryBank, pushed, call, ret, otherVars, compVars>>

Undefined == [undefined |-> TRUE]

Idle == [op |-> "idle"]

\* the argument of the call named name, or its default when left out
Arg(c, name, default) == IF name \in DOMAIN c THEN c[name] ELSE default

\* the second instance after construction
OtherInit ==
    /\ otherBank = <<>>
    /\ otherCall = Idle
    /\ otherRet = Undefined

\* the component after its first render and the effects of that render
ComponentInit ==
    /\ isListening = FALSE
    /\ transcript = ""
    /\ interimTranscript = ""
    /\ confidence = Num(0)
    /\ speechClassification = ""
    /\ attentionWeights = <<>>
    /\ audioLevel = Num(0)
    /\ isProcessing = FALSE
    /\ audioContextRef = 0
    /\ analyserRef = 0
    /\ recognition = "inactive"
    /\ effectRan = FALSE
    /\ grants = <<>>
    /\ contexts = <<>>
    /\ frames = <<>>
    /\ timers = 0
    /\ sinceClear = "none"

(***************************************************************************)
(* The attention engine: one instance, called in any order.                *)
(***************************************************************************)
Utterances == {"Project deadline", "the bug"}

WordSeqs ==
    { <<>>,
      <<"a">>,
      <<"The", "Meeting">>,
      <<"issue", "important", "deadline">>,
      <<"of", "data", "job", "statistics">> }

AttentionInit ==
    /\ memoryBank = <<>>
    /\ pushed = <<>>
    /\ call = Idle
    /\ ret = Undefined
    /\ OtherInit
    /\ ComponentInit

UpdateMemory(c) ==
    /\ call = Idle
    /\ Len(pushed) < MaxUpdates
    /\ memoryBank' = updateMemory(memoryBank, c.utterance)
    /\ pushed' = Append(pushed, c.utterance)
    /\ call' = c
    /\ ret' = Undefined
    /\ UNCHANGED <<otherVars, compVars>>

GetRecentContext(c) ==
    /\ call = Idle
    /\ call' = c
    /\ ret' = getRecentContextArray(memoryBank,
                                     Arg(c, "numUtterances", DefaultNumUtterances))
    /\ UNCHANGED <<memoryBank, pushed>>
    /\ UNCHANGED <<otherVars, compVars>>

CalculateAttention(c) ==
    /\ call = Idle
    /\ call' = c
    /\ ret' = [weights |-> calculateAttention(c.words, Arg(c, "context", <<>>))]
    /\ UNCHANGED <<memoryBank, pushed>>
    /\ UNCHANGED <<otherVars, compVars>>

MultiHeadAttention(c) ==
    /\ call = Idle
    /\ call' = c
    /\ ret' = [weights |->
                  multiHeadAttention(c.words, Arg(c, "numHeads", DefaultNumHeads), memoryBank)]
    /\ UNCHANGED <<memoryBank, pushed>>
    /\ UNCHANGED <<otherVars, compVars>>

\* the call has returned; its caller goes on
Return ==
    /\ call # Idle
    /\ call' = Idle
    /\ ret' = Undefined
    /\ UNCHANGED <<memoryBank, pushed>>
    /\ UNCHANGED <<otherVars, compVars>>

\* the contexts a caller passes: an empty one, the recent context of the
\* engine, or the whole memory
Contexts == {<<>>, getRecentContext(memoryBank, DefaultNumUtterances), memoryBank}

AttentionNext ==
    \/ \E u \in Utterances : UpdateMemory([op |-> "updateMemory", utterance |-> u])
    \/ GetRecentContext([op |-> "getRecentContext"])
    \/ \E k \in 0..MaxK :
           GetRecentContext([op |-> "getRecentContext", numUtterances |-> k])
    \/ \E w \in WordSeqs : CalculateAttention([op |-> "calculateAttention", words |-> w])
    \/ \E w \in WordSeqs, c \in Contexts :
           CalculateAttention([op |-> "calculateAttention", words |-> w, context |-> c])
    \/ \E w \in WordSeqs : MultiHeadAttention([op |-> "multiHeadAttention", words |-> w])
    \/ \E w \in WordSeqs, h \in 0..MaxHeads :
           MultiHeadAttention([op |-> "multiHeadAttention", words |-> w, numHeads |-> h])
    \/ Return

SpecAttention == AttentionInit /\ [][AttentionNext]_vars

\* The caller of getRecentContext empties the array it was handed
\* (context.length = 0).  An array shared with the engine would be emptied
\* for the engine as well.
ChangeReturnedContext ==
    /\ call.op = "getRecentContext"
    /\ ret.utterances # <<>>
    /\ ret' = [ret EXCEPT !.utterances = <<>>]
    /\ memoryBank' = IF ret.array = "memoryBank" THEN <<>> ELSE memoryBank
    /\ UNCHANGED <<pushed, call>>
    /\ UNCHANGED <<otherVars, compVars>>

FrameNext ==
    \/ AttentionNext
    \/ ChangeReturnedContext

SpecFrame == AttentionInit /\ [][FrameNext]_vars

(***************************************************************************)
(* Two instances, each called in any order.  An instance has its own       *)
(* memoryBank, created by its constructor; the methods reach the memory    *)
(* through this only.                                                      *)
(***************************************************************************)
PairWordSeqs ==
    { <<"The", "Meeting">>,
      <<"issue", "important", "deadline">> }

UpdateMemoryOther(c) ==
    /\ otherCall = Idle
    /\ otherBank' = updateMemory(otherBank, c.utterance)
    /\ otherCall' = c
    /\ otherRet' = Undefined
    /\ UNCHANGED <<memoryBank, pushed, call, ret, compVars>>

MultiHeadAttentionOther(c) ==
    /\ otherCall = Idle
    /\ otherCall' = c
    /\ otherRet' = [weights |->
                       multiHeadAttention(c.words, Arg(c, "numHeads", DefaultNumHeads),
                                          otherBank)]
    /\ UNCHANGED <<memoryBank, pushed, call, ret, otherBank, compVars>>

\* the call on the second instance has returned; its caller goes on
ReturnOther ==
    /\ otherCall # Idle
    /\ otherCall' = Idle
    /\ otherRet' = Undefined
    /\ UNCHANGED <<memoryBank, pushed, call, ret, otherBank, compVars>>

\* The first instance is updated up to its capacity only: every content a
\* memory can have is reached within 5 updates, and the eviction beyond is
\* exercised on the second instance here.
TwoEnginesNext ==
    \/ \E u \in Utterances :
           /\ Len(pushed) < MemoryCapacity
           /\ UpdateMemory([op |-> "updateMemory", utterance |-> u])
    \/ \E u \in Utterances : UpdateMemoryOther([op |-> "updateMemory", utterance |-> u])
    \/ \E w \in PairWordSeqs : MultiHeadAttention([op |-> "multiHeadAttention", words |-> w])
    \/ \E w \in PairWordSeqs :
           MultiHeadAttentionOther([op |-> "multiHeadAttention", words |-> w])
    \/ Return
    \/ ReturnOther

SpecTwoEngines == AttentionInit /\ [][TwoEnginesNext]_vars

(***************************************************************************)
(* Claims about the attention engine.                                      *)
(***************************************************************************)
\* the last k elements of a, in order
LastN(a, k) == [i \in 1..k |-> a[Len(a) - k + i]]

\* C1: after n updateMemory calls the memory holds exactly the last
\* min(n, 5) utterances passed in, in insertion order; it never holds more
\* than 5, and on overflow it is the oldest entry that went.
C1_MemoryHoldsLastFive ==
    /\ Len(memoryBank) <= 5
    /\ memoryBank = LastN(pushed, Min(Len(pushed), 5))

\* C1 witness: a sixth utterance has just been stored, so one was evicted
C1_Witness_Overflow ==
    /\ call.op = "updateMemory"
    /\ Len(pushed) >= 6
    /\ pushed[1] # pushed[6]

\* C2: getRecentContext(k), k >= 0, returns the last min(k, size) stored
\* utterances in insertion order (k = 0: none); no argument means k = 3.
C2_RecentContextIsLastK ==
    call.op = "getRecentContext" =>
        ret.utterances =
            LastN(memoryBank, Min(Arg(call, "numUtterances", 3), Len(memoryBank)))

\* C3: multiHeadAttention of a single token with the default 3 heads
\* returns exactly one weight, and that weight is finite.
C3_SingleTokenWeightFinite ==
    (/\ call.op = "multiHeadAttention"
     /\ "numHeads" \notin DOMAIN call
     /\ Len(call.words) = 1)
        => (Len(ret.weights) = 1 /\ ~IsNaN(ret.weights[1]))

\* C10: calculateAttention and multiHeadAttention return one weight per
\* token, entry i belonging to token i: the softmax path orders its entries
\* as the clamped weights of their tokens, and the content head alone gives
\* 0.2 to exactly the stop words.
C10_OneWeightPerToken ==
    /\ call.op \in {"calculateAttention", "multiHeadAttention"} =>
           DOMAIN ret.weights = 1..Len(call.words)
    /\ call.op = "calculateAttention" =>
           LET clamped == [i \in 1..Len(call.words) |->
                              AttentionWeight(call.words, i, Arg(call, "context", <<>>))]
           IN  \A i, j \in 1..Len(call.words) :
                   Lt(ret.weights[i], ret.weights[j]) <=> Lt(clamped[i], clamped[j])
    /\ (call.op = "multiHeadAttention" /\ Arg(call, "numHeads", 3) = 1) =>
           \A i \in 1..Len(call.words) :
               ret.weights[i] =
                   (IF toLowerCase(call.words[i]) \in
                          {lowImportance[k] : k \in DOMAIN lowImportance}
                    THEN R(2, 10) ELSE R(8, 10))

\* C10 witness: the multi-head path has returned for several tokens, with
\* utterances in the memory
C10_Witness_MultiHead ==
    /\ call.op = "multiHeadAttention"
    /\ Len(call.words) >= 3
    /\ Len(ret.weights) = Len(call.words)
    /\ memoryBank # <<>>

(***************************************************************************)
(* The text feature extractor and the classifier: pure functions, applied  *)
(* to inputs drawn from the sets below.                                    *)
(***************************************************************************)
Texts ==
    { "",
      "This is a critical problem",
      " hi",
      "good  day!",
      "I hate terrible awful bugs?",
      "Excellent",
      "what a wonderful amazing fantastic great good awesome excellent day it is" }

\* feature vectors handed to classify, on and around every threshold
FeatureVectors ==
    [wordCount        : {Num(1), Num(4), Num(5), Num(11)},
     avgWordLength    : {Num(0), Num(3), Num(4), Num(5), R(11, 2)},
     hasQuestionMarks : {Num(0)},
     hasExclamations  : {Num(0)},
     speechRate       : {Num(1), Num(3), Num(10), Num(11)},
     sentiment        : {Num(-1), Num(0), Num(2)},
     complexity       : {Num(0), R(3, 10), R(2, 5)}]

Init ==
    /\ memoryBank = <<>>
    /\ pushed = <<>>
    /\ call = Idle
    /\ ret = Undefined
    /\ OtherInit
    /\ ComponentInit

ExtractFeatures(c) ==
    /\ call = Idle
    /\ call' = c
    /\ ret' = extractFeatures(c.text)
    /\ UNCHANGED <<memoryBank, pushed>>
    /\ UNCHANGED <<otherVars, compVars>>

Classify(c) ==
    /\ call = Idle
    /\ call' = c
    /\ ret' = classify(c.features)
    /\ UNCHANGED <<memoryBank, pushed>>
    /\ UNCHANGED <<otherVars, compVars>>

\* svmClassifier.classifyRealTime(text), once its timer has fired
ClassifyRealTime(c) ==
    /\ call = Idle
    /\ call' = c
    /\ ret' = classify(extractFeatures(c.text))
    /\ UNCHANGED <<memoryBank, pushed>>
    /\ UNCHANGED <<otherVars, compVars>>

TextNext ==
    \/ \E t \in Texts : ExtractFeatures([op |-> "extractFeatures", text |-> t])
    \/ \E f \in FeatureVectors : Classify([op |-> "classify", features |-> f])
    \/ \E t \in Texts : ClassifyRealTime([op |-> "classifyRealTime", text |-> t])
    \/ Return

SpecText == Init /\ [][TextNext]_vars

(***************************************************************************)
(* Claims about the text feature extractor and the classifier.             *)
(***************************************************************************)
\* C4: for the empty utterance extractFeatures returns wordCount = 0,
\* avgWordLength = 0 and complexity = 0.
C4_EmptyUtteranceFeaturesZero ==
    (call.op = "extractFeatures" /\ call.text = "") =>
        /\ ret.wordCount = Num(0)
        /\ ret.avgWordLength = Num(0)
        /\ ret.complexity = Num(0)

\* the conditions of the five rules, in the order of the decision list
C5_Rule(f) ==
    << Gt(f.complexity, R(3, 10)) /\ Gt(f.avgWordLength, Num(5)),
       Gt(f.speechRate, Num(10)) /\ Gt(f.sentiment, Num(0)),
       Lt(f.avgWordLength, Num(4)) /\ Lt(f.wordCount, Num(5)),
       Lt(f.sentiment, Num(0)),
       Lt(f.speechRate, Num(3)) >>

C5_Label ==
    << [type |-> "Formal Speech", confidence |-> R(85, 100)],
       [type |-> "Excited Speech", confidence |-> R(78, 100)],
       [type |-> "Casual Speech", confidence |-> R(82, 100)],
       [type |-> "Emotional Speech", confidence |-> R(76, 100)],
       [type |-> "Slow Speech", confidence |-> R(80, 100)],
       [type |-> "Normal Speech", confidence |-> R(75, 100)] >>

\* C5: classify returns the label and confidence of the first rule, in the
\* order Formal, Excited, Casual, Emotional, Slow, whose condition holds,
\* and Normal when none holds: always one of the six labels, never a later
\* rule when an earlier one holds, the confidence the constant of the rule.
C5_FirstMatchingRuleWins ==
    call.op = "classify" =>
        LET rule == C5_Rule(call.features)
        IN  /\ \E k \in 1..6 : ret = C5_Label[k]
            /\ \A k \in 1..5 :
                   (rule[k] /\ \A e \in 1..(k - 1) : ~rule[e]) => ret = C5_Label[k]
            /\ (\A k \in 1..5 : ~rule[k]) => ret = C5_Label[6]

\* C5 witness: the Emotional and the Slow rule both hold and no earlier one
C5_Witness_TwoRulesHold ==
    /\ call.op = "classify"
    /\ C5_Rule(call.features)[4]
    /\ C5_Rule(call.features)[5]
    /\ ret.type = "Emotional Speech"

(***************************************************************************)
(* The audio frame analyzer and the quality assessor: pure functions,      *)
(* applied to inputs drawn from the sets below.                            *)
(***************************************************************************)
\* byte values of a bin: silence, the speech threshold, just above it, full
SampleValues == {0, 30, 31, 255}

DataArrays == UNION {[1..n -> SampleValues] : n \in 1..MaxBins}

\* the readings of Date.now() (whole seconds here)
Times == {1762400000}

\* audio metrics handed to assessQuality, on and around every threshold
AudioDatas ==
    [average : {R(5, 100), R(1, 10), R(3, 10), R(1, 2), R(8, 10), R(85, 100), R(95, 100)},
     rms     : {R(1, 10), R(1, 2), R(8, 10)},
     frequencyDistribution :
         {[low |-> R(1, 10), mid |-> R(1, 2), high |-> R(2, 10)],
          [low |-> R(1, 2), mid |-> R(1, 2), high |-> R(2, 10)],
          [low |-> R(1, 10), mid |-> R(1, 2), high |-> R(6, 10)]}]

\* the speech characteristics handed to assessQuality: null, or a summary
SpeechCharacteristics ==
    {Null} \cup
    [averageVolume : {R(1, 2)},
     consistency   : {R(7, 10), R(9, 10), R(-1, 10)}]

\* the thresholds handed to detectVoiceActivity: below, on and above the
\* voice indicators of AudioDatas, and a negative one
VoiceThresholds == {R(-1, 10), R(1, 10), R(11, 30), R(2, 5), R(1, 2), R(9, 10)}

\* the frames of an audio history: a silent one and a speaking one
HistoryFrames ==
    { [average |-> R(1, 20), isSpeaking |-> FALSE],
      [average |-> R(1, 2), isSpeaking |-> TRUE] }

AudioHistories == UNION {[1..n -> HistoryFrames] : n \in 0..MaxHistory}

DetectVoiceActivity(c) ==
    /\ call = Idle
    /\ call' = c
    /\ ret' = detectVoiceActivity(c.audioData, Arg(c, "threshold", DefaultVoiceThreshold))
    /\ UNCHANGED <<memoryBank, pushed>>
    /\ UNCHANGED <<otherVars, compVars>>

CalculateSpeechCharacteristics(c) ==
    /\ call = Idle
    /\ call' = c
    /\ ret' = calculateSpeechCharacteristics(c.audioHistory)
    /\ UNCHANGED <<memoryBank, pushed>>
    /\ UNCHANGED <<otherVars, compVars>>

AnalyzeFrequencyData(c) ==
    /\ call = Idle
    /\ call' = c
    /\ ret' = analyzeFrequencyData(c.dataArray, c.now)
    /\ UNCHANGED <<memoryBank, pushed>>
    /\ UNCHANGED <<otherVars, compVars>>

AssessQuality(c) ==
    /\ call = Idle
    /\ call' = c
    /\ ret' = assessQuality(c.audioData, Arg(c, "speechCharacteristics", Null))
    /\ UNCHANGED <<memoryBank, pushed>>
    /\ UNCHANGED <<otherVars, compVars>>

AudioNext ==
    \/ \E d \in DataArrays, t \in Times :
           AnalyzeFrequencyData([op |-> "analyzeFrequencyData", dataArray |-> d, now |-> t])
    \/ \E a \in AudioDatas :
           AssessQuality([op |-> "assessQuality", audioData |-> a])
    \/ \E a \in AudioDatas, sc \in SpeechCharacteristics :
           AssessQuality([op |-> "assessQuality", audioData |-> a,
                          speechCharacteristics |-> sc])
    \/ \E a \in AudioDatas :
           DetectVoiceActivity([op |-> "detectVoiceActivity", audioData |-> a])
    \/ \E a \in AudioDatas, t \in VoiceThresholds :
           DetectVoiceActivity([op |-> "detectVoiceActivity", audioData |-> a,
                                threshold |-> t])
    \/ \E h \in AudioHistories :
           CalculateSpeechCharacteristics([op |-> "calculateSpeechCharacteristics",
                                           audioHistory |-> h])
    \/ Return

SpecAudio == Init /\ [][AudioNext]_vars

(***************************************************************************)
(* Claims about the quality assessor.                                      *)
(***************************************************************************)
\* the four checks as the design states them: volume in [0.3, 0.8], mid
\* band above both others, a summary with consistency > 0.7, rms in (0.1, 0.8)
C6_Passes(c) ==
    LET a  == c.audioData
        sc == Arg(c, "speechCharacteristics", Null)
    IN  << Ge(a.average, R(3, 10)) /\ Le(a.average, R(8, 10)),
           /\ Gt(a.frequencyDistribution.mid, a.frequencyDistribution.low)
           /\ Gt(a.frequencyDistribution.mid, a.frequencyDistribution.high),
           sc # Null /\ Gt(sc.consistency, R(7, 10)),
           Gt(a.rms, R(1, 10)) /\ Lt(a.rms, R(8, 10)) >>

\* C6: the score is 25 times the number of the four checks that pass, so
\* one of 0, 25, 50, 75, 100; the level is excellent iff score >= 75, good
\* iff 50 <= score < 75, fair iff 25 <= score < 50, poor iff score < 25.
C6_ScoreCountsPassedChecks ==
    call.op = "assessQuality" =>
        LET passes == C6_Passes(call)
        IN  /\ ret.score = 25 * Cardinality({k \in 1..4 : passes[k]})
            /\ ret.score \in {0, 25, 50, 75, 100}
            /\ ret.level = "excellent" <=> ret.score >= 75
            /\ ret.level = "good" <=> (50 <= ret.score /\ ret.score < 75)
            /\ ret.level = "fair" <=> (25 <= ret.score /\ ret.score < 50)
            /\ ret.level = "poor" <=> ret.score < 25

\* C6 witness: the volume sits on the lower end 0.3 of its range, and the
\* volume check is the only one that passes
C6_Witness_VolumeOnBoundary ==
    /\ call.op = "assessQuality"
    /\ call.audioData.average = R(3, 10)
    /\ ret.score = 25
    /\ ret.level = "fair"

C7_Remedies ==
    << "Adjust microphone distance or system volume",
       "Check microphone quality and reduce background noise",
       "Maintain steady speaking volume and distance",
       "Ensure proper microphone settings and audio drivers" >>

\* the remedies of the checks k..4 that did not pass, in check order
RECURSIVE C7_Unmet(_, _)
C7_Unmet(passes, k) ==
    IF k > 4 THEN <<>>
    ELSE (IF passes[k] THEN <<>> ELSE <<C7_Remedies[k]>>) \o C7_Unmet(passes, k + 1)

\* C7: with a score below 75 the recommendations are exactly the remedies
\* of the unmet checks, one each and in check order; with a score of 75 or
\* more there are none.
C7_RecommendationsAreUnmetChecks ==
    call.op = "assessQuality" =>
        /\ ret.score < 75 => ret.recommendations = C7_Unmet(C6_Passes(call), 1)
        /\ ret.score >= 75 => ret.recommendations = <<>>

\* C7 witness: exactly three checks pass, the unmet one is not reported
C7_Witness_ScoreIs75 ==
    /\ call.op = "assessQuality"
    /\ ret.score = 75
    /\ ~C6_Passes(call)[3]
    /\ ret.recommendations = <<>>

(***************************************************************************)
(* Claims about the audio frame analyzer.                                  *)
(***************************************************************************)
\* x is in [0, 1]
InUnit(x) == Ge(x, Num(0)) /\ Le(x, Num(1))

\* the sum of the bytes a[from..to]
RECURSIVE ByteSum(_, _, _)
ByteSum(a, from, to) == IF from > to THEN 0 ELSE a[from] + ByteSum(a, from + 1, to)

\* C8: for N >= 4 samples in 0..255, average, peak and rms are in [0,1] and
\* so is each band energy; isSpeaking holds exactly when the raw mean
\* exceeds 30.
C8_MetricsInUnitRange ==
    (call.op = "analyzeFrequencyData" /\ Len(call.dataArray) >= 4) =>
        /\ InUnit(ret.average)
        /\ InUnit(ret.peak)
        /\ InUnit(ret.rms)
        /\ InUnit(ret.frequencyDistribution.low)
        /\ InUnit(ret.frequencyDistribution.mid)
        /\ InUnit(ret.frequencyDistribution.high)
        /\ ret.isSpeaking <=>
               ByteSum(call.dataArray, 1, Len(call.dataArray)) > 30 * Len(call.dataArray)

\* C8 witness: a frame whose raw mean is exactly 30, so it is not speech
C8_Witness_MeanOnThreshold ==
    /\ call.op = "analyzeFrequencyData"
    /\ Len(call.dataArray) >= 4
    /\ \A i \in DOMAIN call.dataArray : call.dataArray[i] = 30
    /\ ~ret.isSpeaking

\* the mean of the bytes a[from..to] on the scale 0..1
C9_BandEnergy(a, from, to) == R(ByteSum(a, from, to), (to - from + 1) * 255)

\* C9: for N >= 4 the bands are the bins [0, N/4), [N/4, 3N/4), [3N/4, N)
\* with the bounds rounded down: each band non-empty, and each bin in
\* exactly one band.  (Bin i of the code is element i + 1 here.)
C9_BandsPartitionBins ==
    (call.op = "analyzeFrequencyData" /\ Len(call.dataArray) >= 4) =>
        LET N  == Len(call.dataArray)
            q1 == N \div 4
            q3 == (3 * N) \div 4
        IN  /\ 0 < q1 /\ q1 < q3 /\ q3 < N
            /\ ret.frequencyDistribution.low = C9_BandEnergy(call.dataArray, 1, q1)
            /\ ret.frequencyDistribution.mid = C9_BandEnergy(call.dataArray, q1 + 1, q3)
            /\ ret.frequencyDistribution.high = C9_BandEnergy(call.dataArray, q3 + 1, N)

\* C9 witness: a frame of 5 bins whose three bands differ
C9_Witness_FiveBins ==
    /\ call.op = "analyzeFrequencyData"
    /\ Len(call.dataArray) = 5
    /\ Lt(ret.frequencyDistribution.low, ret.frequencyDistribution.mid)
    /\ Lt(ret.frequencyDistribution.mid, ret.frequencyDistribution.high)

(***************************************************************************)
(* part_000: the VoiceTranscriber component.  Every handler runs to its    *)
(* end in one step (JavaScript runs one callback at a time); the           *)
(* asynchronous parts (the effect after a render, the microphone grant,    *)
(* animation frames, timers, recognizer events) are steps of their own.    *)
(* React renders and runs the effect of a render before the next event is  *)
(* handled: Rendered.  The language is left at its initial value.          *)
(***************************************************************************)
speechClassifications ==
    << "Clear Speech", "Noisy Environment", "Whispered Speech",
       "Emotional Speech", "Fast Speech", "Accented Speech" >>

\* result[0].confidence || 0.85
ConfidenceOf(result) == IF OrZero(result.confidence) = Num(0) THEN R(85, 100)
                        ELSE result.confidence

\* the recognition events delivered to onresult: the results from
\* event.resultIndex on, each with isFinal and its first alternative
ResultEvents ==
    { << [isFinal |-> FALSE, transcript |-> "hel", confidence |-> Num(0)] >>,
      << [isFinal |-> TRUE, transcript |-> "hello", confidence |-> Num(0)] >>,
      << [isFinal |-> TRUE, transcript |-> "ok", confidence |-> R(9, 10)],
         [isFinal |-> FALSE, transcript |-> "go", confidence |-> Num(0)] >> }

\* the values Math.random() * 0.8 + 0.2 takes here
WeightValues == {R(1, 5), R(3, 5)}

\* the values average / 255 takes here
LevelValues == {Num(0), R(1, 2)}

\* finalText (final = TRUE) or interimText (final = FALSE) of onresult
RECURSIVE ResultText(_, _)
ResultText(results, final) ==
    IF results = <<>> THEN ""
    ELSE (IF Head(results).isFinal = final THEN Head(results).transcript ELSE "")
         \o ResultText(Tail(results), final)

\* the final results of an event, in order
RECURSIVE FinalResults(_)
FinalResults(results) ==
    IF results = <<>> THEN <<>>
    ELSE (IF Head(results).isFinal THEN <<Head(results)>> ELSE <<>>)
         \o FinalResults(Tail(results))

\* the render after the last state update, and its effect, have run
Rendered == effectRan = isListening

\* recognitionRef.current.onresult
OnResult(event) ==
    LET finals      == FinalResults(event)
        finalText   == ResultText(event, TRUE)
        interimText == ResultText(event, FALSE)
        last        == finals[Len(finals)]
    IN  /\ Rendered
        /\ recognition # "inactive"
        /\ timers + Len(finals) <= MaxTimers
        /\ finals # <<>> => Len(split(transcript)) <= MaxWords
        /\ IF finals # <<>>
           THEN /\ confidence' = ConfidenceOf(last)
                /\ isProcessing' = TRUE
                /\ timers' = timers + Len(finals)
                /\ \E weights \in [1..Len(split(last.transcript)) -> WeightValues] :
                       attentionWeights' = weights
                /\ sinceClear' = "none"
           ELSE /\ UNCHANGED <<confidence, isProcessing, timers, attentionWeights>>
                /\ sinceClear' = IF sinceClear = "cleared" THEN "interim" ELSE sinceClear
        /\ transcript' = IF finalText # "" THEN transcript \o finalText \o " "
                         ELSE transcript
        /\ interimTranscript' = interimText
        /\ UNCHANGED <<isListening, speechClassification, audioLevel>>
        /\ UNCHANGED <<audioVars, recognition, effectRan>>
        /\ UNCHANGED <<memoryBank, pushed, call, ret, otherVars>>

\* recognitionRef.current.onerror; the session ends after an error, so
\* onend follows
OnError ==
    /\ Rendered
    /\ recognition # "inactive"
    /\ isListening' = FALSE
    /\ isProcessing' = FALSE
    /\ recognition' = "stopping"
    /\ UNCHANGED <<transcript, interimTranscript, confidence, speechClassification,
                   attentionWeights, audioLevel>>
    /\ UNCHANGED <<audioVars, effectRan, timers, sinceClear>>
    /\ UNCHANGED <<memoryBank, pushed, call, ret, otherVars>>

\* recognitionRef.current.onend
OnEnd ==
    /\ Rendered
    /\ recognition # "inactive"
    /\ isListening' = FALSE
    /\ isProcessing' = FALSE
    /\ recognition' = "inactive"
    /\ UNCHANGED <<transcript, interimTranscript, confidence, speechClassification,
                   attentionWeights, audioLevel>>
    /\ UNCHANGED <<audioVars, effectRan, timers, sinceClear>>
    /\ UNCHANGED <<memoryBank, pushed, call, ret, otherVars>>

\* the setTimeout callback of simulateSVMClassification, 500 ms on
ClassificationTimer ==
    /\ Rendered
    /\ timers > 0
    /\ timers' = timers - 1
    /\ \E k \in DOMAIN speechClassifications :
           speechClassification' = speechClassifications[k]
    /\ isProcessing' = FALSE
    /\ UNCHANGED <<isListening, transcript, interimTranscript, confidence,
                   attentionWeights, audioLevel>>
    /\ UNCHANGED <<audioVars, recognition, effectRan, sinceClear>>
    /\ UNCHANGED <<memoryBank, pushed, call, ret, otherVars>>

\* startListening, the button while isListening is false.  start() throws
\* on a recognizer that has not ended yet, after the state was set.
StartListening ==
    /\ Rendered
    /\ ~isListening
    /\ Len(contexts) + Len(grants) < MaxContexts
    /\ isListening' = TRUE
    /\ interimTranscript' = ""
    /\ recognition' = IF recognition = "inactive" THEN "active" ELSE recognition
    /\ UNCHANGED <<transcript, confidence, speechClassification, attentionWeights,
                   audioLevel, isProcessing>>
    /\ UNCHANGED <<audioVars, effectRan, timers, sinceClear>>
    /\ UNCHANGED <<memoryBank, pushed, call, ret, otherVars>>

\* stopListening, the button while isListening is true
StopListening ==
    /\ Rendered
    /\ isListening
    /\ recognition' = IF recognition = "active" THEN "stopping" ELSE recognition
    /\ UNCHANGED <<hookVars, audioVars, effectRan, timers, sinceClear>>
    /\ UNCHANGED <<memoryBank, pushed, call, ret, otherVars>>

\* clearTranscript, the button while there is text to clear
ClearTranscript ==
    /\ Rendered
    /\ transcript # "" \/ interimTranscript # ""
    /\ transcript' = ""
    /\ interimTranscript' = ""
    /\ attentionWeights' = <<>>
    /\ speechClassification' = ""
    /\ confidence' = Num(0)
    /\ sinceClear' = "cleared"
    /\ UNCHANGED <<isListening, audioLevel, isProcessing>>
    /\ UNCHANGED <<audioVars, recognition, effectRan, timers>>
    /\ UNCHANGED <<memoryBank, pushed, call, ret, otherVars>>

\* stopAudioMonitoring: close() on the context the ref holds, if any
stopAudioMonitoring(ctxs, ref) ==
    IF ref # 0 THEN [ctxs EXCEPT ![ref] = "closed"] ELSE ctxs

\* the useEffect on [isListening], after the render that changed it:
\* startAudioMonitoring up to its await, or stopAudioMonitoring
AudioEffect ==
    /\ ~Rendered
    /\ effectRan' = isListening
    /\ IF isListening
       THEN /\ grants' = Append(grants, isListening)
            /\ UNCHANGED contexts
       ELSE /\ contexts' = stopAudioMonitoring(contexts, audioContextRef)
            /\ UNCHANGED grants
    /\ UNCHANGED <<hookVars, audioContextRef, analyserRef, frames>>
    /\ UNCHANGED <<recognition, timers, sinceClear>>
    /\ UNCHANGED <<memoryBank, pushed, call, ret, otherVars>>

\* the test of updateAudioLevel: analyserRef.current && isListening, for
\* the isListening of the closure
KeepsUpdating(analyser, listening) == analyser # 0 /\ listening

\* getUserMedia resolves: the rest of startAudioMonitoring, with the first
\* call of updateAudioLevel
MicrophoneGranted ==
    /\ Rendered
    /\ grants # <<>>
    /\ grants' = Tail(grants)
    /\ contexts' = Append(contexts, "running")
    /\ audioContextRef' = Len(contexts) + 1
    /\ analyserRef' = Len(contexts) + 1
    /\ IF KeepsUpdating(analyserRef', Head(grants))
       THEN /\ \E level \in LevelValues : audioLevel' = level
            /\ frames' = Append(frames, Head(grants))
       ELSE UNCHANGED <<audioLevel, frames>>
    /\ UNCHANGED <<isListening, transcript, interimTranscript, confidence,
                   speechClassification, attentionWeights, isProcessing>>
    /\ UNCHANGED <<recognition, effectRan, timers, sinceClear>>
    /\ UNCHANGED <<memoryBank, pushed, call, ret, otherVars>>

\* getUserMedia rejects: the catch of startAudioMonitoring logs the error
MicrophoneDenied ==
    /\ Rendered
    /\ grants # <<>>
    /\ grants' = Tail(grants)
    /\ UNCHANGED <<hookVars, audioContextRef, analyserRef, contexts, frames>>
    /\ UNCHANGED <<recognition, effectRan, timers, sinceClear>>
    /\ UNCHANGED <<memoryBank, pushed, call, ret, otherVars>>

\* a queued updateAudioLevel runs on an animation frame; the isListening
\* it tests is the one its closure captured
AnimationFrame ==
    /\ Rendered
    /\ frames # <<>>
    /\ IF KeepsUpdating(analyserRef, Head(frames))
       THEN /\ \E level \in LevelValues : audioLevel' = level
            /\ frames' = Append(Tail(frames), Head(frames))
       ELSE /\ frames' = Tail(frames)
            /\ UNCHANGED audioLevel
    /\ UNCHANGED <<isListening, transcript, interimTranscript, confidence,
                   speechClassification, attentionWeights, isProcessing>>
    /\ UNCHANGED <<audioContextRef, analyserRef, grants, contexts>>
    /\ UNCHANGED <<recognition, effectRan, timers, sinceClear>>
    /\ UNCHANGED <<memoryBank, pushed, call, ret, otherVars>>

ComponentNext ==
    \/ \E event \in ResultEvents : OnResult(event)
    \/ OnError
    \/ OnEnd
    \/ ClassificationTimer
    \/ StartListening
    \/ StopListening
    \/ ClearTranscript
    \/ AudioEffect
    \/ MicrophoneGranted
    \/ MicrophoneDenied
    \/ AnimationFrame

SpecComponent == Init /\ [][ComponentNext]_vars

(***************************************************************************)
(* Further claims about the attention engine.                              *)
(***************************************************************************)
\* C11: for a non-empty token sequence and any context the weights that
\* calculateAttention returns sum to 1, and each weight is in [0, 1].
C11_SoftmaxSumsToOne ==
    (call.op = "calculateAttention" /\ Len(call.words) > 0) =>
        /\ SumN(ret.weights) = Num(1)
        /\ \A i \in DOMAIN ret.weights : InUnit(ret.weights[i])

\* C11 witness: several tokens weighed against a non-empty context, the
\* weights not all equal
C11_Witness_UnequalWeights ==
    /\ call.op = "calculateAttention"
    /\ Len(call.words) >= 3
    /\ Arg(call, "context", <<>>) # <<>>
    /\ \E i, j \in DOMAIN ret.weights : Lt(ret.weights[i], ret.weights[j])

\* C13: in any sequence of calls on one instance the stored memory changes
\* in no step other than an updateMemory call: calculateAttention,
\* multiHeadAttention and getRecentContext leave it as it is, and so does
\* the caller changing the array that getRecentContext returned.
C13_OnlyUpdateMemoryChangesMemory ==
    [][memoryBank' # memoryBank => (call = Idle /\ call'.op = "updateMemory")]_vars

\* C13 witness: the caller has emptied the array returned for k >= 1 while
\* the memory holds two utterances or more
C13_Witness_ReturnedArrayEmptied ==
    /\ call.op = "getRecentContext"
    /\ Arg(call, "numUtterances", 3) >= 1
    /\ ret.utterances = <<>>
    /\ Len(memoryBank) >= 2

\* C20: two instances whose memories agree on their last 3 entries return
\* the same weights from multiHeadAttention for the same tokens, whatever
\* their older entries are; and a step that changes the
\* memory or the result of one instance leaves the memory and the result
\* of the other as they are.
C20_DependsOnLastThreeOnly ==
    /\ []((/\ call.op = "multiHeadAttention"
           /\ otherCall.op = "multiHeadAttention"
           /\ call = otherCall
           /\ LastN(memoryBank, Min(3, Len(memoryBank)))
                  = LastN(otherBank, Min(3, Len(otherBank))))
              => ret.weights = otherRet.weights)
    /\ [][/\ (memoryBank' # memoryBank \/ ret' # ret) =>
                  (otherBank' = otherBank /\ otherRet' = otherRet)
          /\ (otherBank' # otherBank \/ otherRet' # otherRet) =>
                  (memoryBank' = memoryBank /\ ret' = ret)]_vars

\* C20 witness: both instances hold 5 utterances, the same last 3 but not
\* the same oldest, and have answered for the same tokens
C20_Witness_OlderEntriesDiffer ==
    /\ call.op = "multiHeadAttention"
    /\ call = otherCall
    /\ Len(memoryBank) = 5
    /\ Len(otherBank) = 5
    /\ LastN(memoryBank, 3) = LastN(otherBank, 3)
    /\ memoryBank[1] # otherBank[1]
    /\ ret.weights = otherRet.weights

(***************************************************************************)
(* Further claims about the text feature extractor and the classifier.     *)
(***************************************************************************)
\* C12: extractFeatures of "This is a critical problem" has wordCount 5,
\* avgWordLength 22/5, sentiment 0 and complexity 2/5; none of the five
\* rules of classify holds of it, and its class is Normal Speech at 0.75.
C12_CriticalProblemExample ==
    /\ (call.op = "extractFeatures" /\ call.text = "This is a critical problem") =>
           /\ ret.wordCount = Num(5)
           /\ ret.avgWordLength = R(22, 5)
           /\ ret.sentiment = Num(0)
           /\ ret.complexity = R(2, 5)
           /\ \A k \in 1..5 : ~C5_Rule(ret)[k]
    /\ (call.op = "classifyRealTime" /\ call.text = "This is a critical problem") =>
           ret = [type |-> "Normal Speech", confidence |-> R(75, 100)]

\* C12 witness: the example utterance has been classified
C12_Witness_ExampleClassified ==
    /\ call.op = "classifyRealTime"
    /\ call.text = "This is a critical problem"
    /\ ret.type = "Normal Speech"

\* the positions of text where a run of non-space characters starts
C16_TokenStarts(text) ==
    {i \in 1..Len(text) :
        CharAt(text, i) # " " /\ (i = 1 \/ CharAt(text, i - 1) = " ")}

\* the length of the run of non-space characters of text that starts at i
C16_TokenLength(text, i) ==
    Cardinality({j \in i..Len(text) : \A k \in i..j : CharAt(text, k) # " "})

\* C16: for an utterance that holds a word, with leading, trailing or
\* repeated spaces or without, wordCount and speechRate are the number of
\* non-empty space-separated tokens, avgWordLength is the mean length of
\* those tokens and complexity the share of them longer than 6 characters.
\* (The utterance without any word is the case of C4.)
C16_WordCountIsNonEmptyTokens ==
    (call.op = "extractFeatures" /\ C16_TokenStarts(call.text) # {}) =>
        LET starts == C16_TokenStarts(call.text)
            count  == Cardinality(starts)
            chars  == Cardinality({i \in 1..Len(call.text) : CharAt(call.text, i) # " "})
            long   == Cardinality({i \in starts : C16_TokenLength(call.text, i) > 6})
        IN  /\ ret.wordCount = Num(count)
            /\ ret.speechRate = Num(count)
            /\ ret.avgWordLength = R(chars, count)
            /\ ret.complexity = R(long, count)

(***************************************************************************)
(* Further claims about the audio processor.                               *)
(***************************************************************************)
\* C17: calculateSpeechCharacteristics returns null for an empty history;
\* for a history of n > 0 frames the summary is that of the last
\* min(n, 10) frames alone: speechRatio is the share of speaking frames
\* among them, averageVolume and consistency are taken over them, and the
\* pattern is continuous if the ratio > 0.8, else intermittent if > 0.5,
\* else sparse if > 0.2, else silent, never unknown.
C17_SummaryOfLastTenFrames ==
    call.op = "calculateSpeechCharacteristics" =>
        IF call.audioHistory = <<>> THEN ret = Null
        ELSE LET n        == Min(Len(call.audioHistory), 10)
                 recent   == LastN(call.audioHistory, n)
                 speaking == Cardinality({i \in 1..n : recent[i].isSpeaking})
                 volumes  == {recent[i].average : i \in 1..n}
                 highest  == CHOOSE v \in volumes : \A w \in volumes : Le(w, v)
                 lowest   == CHOOSE v \in volumes : \A w \in volumes : Le(v, w)
             IN  /\ ret # Null
                 /\ ret.speechRatio = R(speaking, n)
                 /\ ret.averageVolume = Div(SumN([i \in 1..n |-> recent[i].average]), Num(n))
                 /\ ret.consistency = Sub(Num(1), Sub(highest, lowest))
                 /\ ret.speechPattern =
                        (IF 10 * speaking > 8 * n THEN "continuous"
                         ELSE IF 10 * speaking > 5 * n THEN "intermittent"
                         ELSE IF 10 * speaking > 2 * n THEN "sparse"
                         ELSE "silent")
                 /\ ret.speechPattern # "unknown"

\* C17 witness: a history of more than 10 frames whose frames before the
\* last 10 were all speaking, summed up as silent
C17_Witness_OldFramesIgnored ==
    /\ call.op = "calculateSpeechCharacteristics"
    /\ Len(call.audioHistory) > 10
    /\ \A i \in 1..(Len(call.audioHistory) - 10) : call.audioHistory[i].isSpeaking
    /\ ret.speechPattern = "silent"
    /\ ret.speechRatio = R(2, 10)

\* C19: for a threshold > 0, whenever detectVoiceActivity reports isVoice
\* its confidence is exactly 1; a confidence below 1 comes only with
\* isVoice false.
C19_VoiceHasFullConfidence ==
    (call.op = "detectVoiceActivity" /\ Gt(Arg(call, "threshold", R(1, 10)), Num(0))) =>
        /\ ret.isVoice => ret.confidence = Num(1)
        /\ Lt(ret.confidence, Num(1)) => ~ret.isVoice

\* C19 witness: a voiced frame under a threshold passed in, whose voice
\* indicator is less than twice the threshold
C19_Witness_VoicedFrame ==
    /\ call.op = "detectVoiceActivity"
    /\ "threshold" \in DOMAIN call
    /\ Gt(call.threshold, R(1, 4))
    /\ ret.isVoice
    /\ ret.confidence = Num(1)

(***************************************************************************)
(* Claims about the VoiceTranscriber component.                            *)
(***************************************************************************)
\* C14: after clearTranscript the transcript, the attention weights, the
\* speech classification and the confidence are empty or zero and stay so
\* until the recognizer delivers a new final result, also when a
\* classification timer of an earlier final result is still pending at the
\* Clear; the interim transcript is empty and stays so until the recognizer
\* delivers a new result (an interim result is let through to it).
C14_ClearedStaysCleared ==
    /\ sinceClear # "none" =>
           /\ transcript = ""
           /\ attentionWeights = <<>>
           /\ speechClassification = ""
           /\ confidence = Num(0)
    /\ sinceClear = "cleared" => interimTranscript = ""

\* C15: once isListening is false, the effect of that render has run and
\* no microphone request is still pending, every audio context that
\* startAudioMonitoring created is closed and no queued updateAudioLevel
\* will queue itself again.
C15_AudioContextsCleanedUp ==
    (~isListening /\ Rendered /\ grants = <<>>) =>
        /\ \A k \in DOMAIN contexts : contexts[k] = "closed"
        /\ \A i \in DOMAIN frames : ~KeepsUpdating(analyserRef, frames[i])

\* C18: isProcessing is true whenever a classification timer started by a
\* final recognition result has not fired yet.
C18_ProcessingWhilePending ==
    timers > 0 => isProcessing

=============================================================================
